---- MODULE Spec2Model ----
(***************************************************************************)
(* A model of yandex_image_scraper.py: the crawl loop of                   *)
(* YandexImageScraper._extract_image_urls (scroll, link-mining,            *)
(* attribute-mining, recovery click), and the two entry points             *)
(* search_and_download and reverse_image_search with their download loop.  *)
(*                                                                         *)
(* The browser page and the network are the environment: every query of    *)
(* the page (find_elements, get_attribute, the scroll height, a wait for a *)
(* selector) and every transfer answers with a value drawn from a small    *)
(* set.  URLs are real strings, and the string tests of the code           *)
(* (startswith, in, lower, parse_qs, the :03d format) are computed on      *)
(* them.  The debug flag is taken to be off: it only adds printing,        *)
(* screenshots and element counts.  A driver call raises only where the    *)
(* code wraps it in a try block; locals that are dead after a loop are     *)
(* cleared, so that runs that differ only in them meet again.              *)
(*                                                                         *)
(* Spec is the two entry points, element by element.  SpecDownload is the  *)
(* download loop over a wider set of URLs.  SpecPass runs the body of the  *)
(* crawl loop (Method 1, Method 2) over a stored page, so that the same    *)
(* page can be read twice, and SpecCrawl runs the crawl loop over a page   *)
(* that shows a fixed number of new URLs at every iteration.               *)
(***************************************************************************)
EXTENDS Integers, Sequences, FiniteSets, TLC

(***************************************************************************)
(* Bounds of the model.                                                    *)
(***************************************************************************)
\* the largest num_images a caller asks for
MaxNum == 2
\* the longest list one find_elements call returns
MaxElems == 2
\* the document heights the page reports are 1..MaxHeight
MaxHeight == 2
\* the scroll counter of one crawl iteration saturates here (it only observes)
ScrollCap == 2
\* a stored page holds at most this many anchors
SnapLinks == 2
\* a stored page holds at most this many image elements
SnapImgs == 2
\* the largest quota of a crawl over a page that grows
MaxQuota == 5
\* such a page shows at most this many new URLs per iteration
MaxPerPass == 3

(***************************************************************************)
(* Python values.                                                          *)
(***************************************************************************)
\* Python's None, for an attribute that is absent
None == "<None>"

\* the truth value Python gives a str-or-None in `if s` / `if not s`
Truthy(s) == s # None /\ s # ""

(***************************************************************************)
(* str operations.                                                         *)
(***************************************************************************)
\* s.startswith(p)
StartsWith(s, p) == Len(s) >= Len(p) /\ SubSeq(s, 1, Len(p)) = p

\* sub in s
Contains(s, sub) ==
    \E i \in 1..(Len(s) - Len(sub) + 1) : SubSeq(s, i, i + Len(sub) - 1) = sub

\* the first position of the one-character string ch in s, 0 when absent
IndexOf(s, ch) ==
    IF \E i \in 1..Len(s) : SubSeq(s, i, i) = ch
    THEN CHOOSE i \in 1..Len(s) :
            /\ SubSeq(s, i, i) = ch
            /\ \A j \in 1..(i - 1) : SubSeq(s, j, j) # ch
    ELSE 0

UpperChars ==
    <<"A", "B", "C", "D", "E", "F", "G", "H", "I", "J", "K", "L", "M",
      "N", "O", "P", "Q", "R", "S", "T", "U", "V", "W", "X", "Y", "Z">>

LowerChars ==
    <<"a", "b", "c", "d", "e", "f", "g", "h", "i", "j", "k", "l", "m",
      "n", "o", "p", "q", "r", "s", "t", "u", "v", "w", "x", "y", "z">>

LowerChar(c) ==
    IF \E k \in 1..26 : UpperChars[k] = c
    THEN LowerChars[CHOOSE k \in 1..26 : UpperChars[k] = c]
    ELSE c

\* s.lower()
Lower(s) ==
    LET low[i \in 0..Len(s)] ==
            IF i = 0 THEN "" ELSE low[i - 1] \o LowerChar(SubSeq(s, i, i))
    IN  low[Len(s)]

(***************************************************************************)
(* urllib.parse: urlparse(href).query and parse_qs(query)['img_url'][0].   *)
(***************************************************************************)
\* the percent escapes the pages of the model use
PctCodes == <<"%3A", "%2F", "%3F", "%3D", "%26", "%2E">>

PctChars == <<":", "/", "?", "=", "&", ".">>

\* unquote(s.replace('+', ' ')); rest[i] is the decoding of s from position i on
Unquote(s) ==
    LET escaped(i) ==
            i + 2 <= Len(s) /\ \E k \in 1..Len(PctCodes) : SubSeq(s, i, i + 2) = PctCodes[k]
        rest[i \in 1..(Len(s) + 1)] ==
            IF i > Len(s) THEN ""
            ELSE IF escaped(i)
            THEN PctChars[CHOOSE k \in 1..Len(PctCodes) :
                            SubSeq(s, i, i + 2) = PctCodes[k]] \o rest[i + 3]
            ELSE (IF SubSeq(s, i, i) = "+" THEN " " ELSE SubSeq(s, i, i))
                    \o rest[i + 1]
    IN  rest[1]

\* the netloc urlsplit cuts out of an href: what follows "//" up to the first
\* '/', '?' or '#'; "" when the href has no "//" after its scheme
Netloc(href) ==
    LET c == IndexOf(href, ":")
        hasAuth == c > 0 /\ Len(href) >= c + 2 /\ SubSeq(href, c + 1, c + 2) = "//"
        tail == IF hasAuth THEN SubSeq(href, c + 3, Len(href)) ELSE ""
        ends == {i \in 1..Len(tail) : SubSeq(tail, i, i) \in {"/", "?", "#"}}
    IN  IF ends = {} THEN tail
        ELSE SubSeq(tail, 1, (CHOOSE i \in ends : \A j \in ends : i <= j) - 1)

\* urlparse(href) raises ValueError("Invalid IPv6 URL"): one bracket of the
\* netloc without the other
UrlparseRaises(href) ==
    LET open == IndexOf(Netloc(href), "[") > 0
        close == IndexOf(Netloc(href), "]") > 0
    IN  open # close

\* urlparse(href).query: the text between the first '?' and the fragment
UrlQuery(href) ==
    LET h == IndexOf(href, "#")
        nofrag == IF h = 0 THEN href ELSE SubSeq(href, 1, h - 1)
        q == IndexOf(nofrag, "?")
    IN  IF q = 0 THEN "" ELSE SubSeq(nofrag, q + 1, Len(nofrag))

\* query.split('&'); rest[i] is the split of s from position i on
SplitAmp(s) ==
    LET amp(i) == IndexOf(SubSeq(s, i, Len(s)), "&")
        rest[i \in 1..(Len(s) + 1)] ==
            IF amp(i) = 0 THEN <<SubSeq(s, i, Len(s))>>
            ELSE <<SubSeq(s, i, i + amp(i) - 2)>> \o rest[i + amp(i)]
    IN  rest[1]

\* one name=value field of the query as parse_qsl reads it: <<name, value>>,
\* or <<>> for a field it drops (no '=', or a blank value)
QsField(nv) ==
    LET e == IndexOf(nv, "=")
    IN  IF e = 0 \/ e = Len(nv) THEN <<>>
        ELSE <<Unquote(SubSeq(nv, 1, e - 1)), Unquote(SubSeq(nv, e + 1, Len(nv)))>>

\* the values parse_qs(query) holds under `name`, in order
QsValues(query, name) ==
    LET fields == SplitAmp(query)
        named(k) == Len(QsField(fields[k])) = 2 /\ QsField(fields[k])[1] = name
        vals[k \in 0..Len(fields)] ==
            IF k = 0 THEN <<>>
            ELSE IF named(k) THEN Append(vals[k - 1], QsField(fields[k])[2])
            ELSE vals[k - 1]
    IN  vals[Len(fields)]

\* the img_url the code reads off an href: None unless the href holds the text
\* 'img_url=' and its query has an img_url parameter
HrefImgUrl(href) ==
    IF Truthy(href) /\ Contains(href, "img_url=")
    THEN LET vals == QsValues(UrlQuery(href), "img_url")
         IN  IF Len(vals) > 0 THEN vals[1] ELSE None
    ELSE None

(***************************************************************************)
(* The pages of the model: URLs, anchors and image elements.               *)
(***************************************************************************)
UCat == "https://img.example.com/photos/cat.png"

UDog == "https://img.example.com/photos/dog.GIF"

UWeb == "http://pics.example.org/gallery/a.webp"

UAvatar == "https://img.example.com/users/Avatar_7.jpg"

UShort == "http://x/a.png"

URel == "/static/images/relative/path/photo.png"

UData == "data:image/gif;base64,R0lGODlhAQABAAAAACw="

HrefCat ==
    "https://yandex.com/images/search?pos=0&img_url=https%3A%2F%2Fimg.example.com%2Fphotos%2Fcat.png&rpt=simage"

HrefWeb ==
    "https://yandex.com/images/search?img_url=http%3A%2F%2Fpics.example.org%2Fgallery%2Fa.webp#top"

HrefAvatar ==
    "https://yandex.com/images/search?img_url=https%3A%2F%2Fimg.example.com%2Fusers%2FAvatar_7.jpg"

HrefShort == "https://yandex.com/images/search?img_url=http%3A%2F%2Fx%2Fa.png"

HrefRel ==
    "https://yandex.com/images/search?img_url=%2Fstatic%2Fimages%2Frelative%2Fpath%2Fphoto.png"

HrefThumb ==
    "https://yandex.com/images/search?thumb_img_url=https%3A%2F%2Fimg.example.com%2Fphotos%2Fdog.GIF"

\* an href whose netloc opens a bracket it never closes
HrefBracket ==
    "https://[yandex.com/images/search?img_url=https%3A%2F%2Fimg.example.com%2Fphotos%2Fdog.GIF"

\* an anchor: its href, and whether reading it raises (a stale element)
LinkElems ==
    {[href |-> h, stale |-> FALSE] :
        h \in {HrefCat, HrefWeb, HrefAvatar, HrefShort, HrefRel, HrefThumb,
               HrefBracket}}
    \cup {[href |-> None, stale |-> TRUE]}

\* the attributes the code reads off an image element
AttrNames ==
    {"class", "src", "data-src", "data-image", "data-url", "data-lazy-src",
     "srcset", "data-bem"}

BemDog == "{\"img_url\": \"https://img.example.com/photos/dog.GIF\"}"

BemEmptyUrl ==
    "{\"url\": \"\", \"preview_url\": \"http://pics.example.org/gallery/a.webp\"}"

BemList == "[\"https://img.example.com/photos/cat.png\"]"

BemBroken == "{\"url\": "

\* an image element with no attribute set, whose parent is no link
BlankImg ==
    [attrs |-> [a \in AttrNames |-> None], parent_href |-> None,
     parent_err |-> FALSE, stale |-> FALSE]

ImgWith(a, v) == [BlankImg EXCEPT !.attrs[a] = v]

ImgElems ==
    { ImgWith("src", UCat),
      ImgWith("data-src", UDog),
      [BlankImg EXCEPT !.attrs["src"] = UData,
                       !.attrs["srcset"] = UWeb \o " 1x, " \o UCat \o " 2x"],
      [BlankImg EXCEPT !.attrs["src"] = UCat, !.attrs["data-lazy-src"] = URel],
      ImgWith("data-lazy-src", URel),
      [BlankImg EXCEPT !.attrs["class"] = "cbir-intent__thumb thumb",
                       !.attrs["src"] = UCat],
      [BlankImg EXCEPT !.attrs["class"] = "user-avatar", !.attrs["src"] = UWeb],
      ImgWith("src", UAvatar),
      ImgWith("data-url", UShort),
      ImgWith("data-bem", BemDog),
      ImgWith("data-bem", BemEmptyUrl),
      ImgWith("data-bem", BemList),
      [BlankImg EXCEPT !.attrs["data-bem"] = BemBroken, !.parent_href = HrefWeb],
      [BlankImg EXCEPT !.parent_href = HrefAvatar],
      [BlankImg EXCEPT !.parent_err = TRUE],
      [BlankImg EXCEPT !.stale = TRUE],
      [BlankImg EXCEPT !.attrs["data-lazy-src"] = URel,
                       !.attrs["srcset"] = UWeb \o " 1x"],
      [BlankImg EXCEPT !.attrs["src"] = UData, !.attrs["data-bem"] = BemDog],
      [BlankImg EXCEPT !.parent_href = HrefWeb],
      BlankImg }

\* json.loads on the data-bem texts of the model: whether it parses, whether
\* the value is a dict, and the dict
JsonLoads(text) ==
    CASE text = BemDog ->
            [ok |-> TRUE, isDict |-> TRUE, dict |-> [img_url |-> UDog]]
      [] text = BemEmptyUrl ->
            [ok |-> TRUE, isDict |-> TRUE,
             dict |-> [url |-> "", preview_url |-> UWeb]]
      [] text = BemList ->
            [ok |-> TRUE, isDict |-> FALSE, dict |-> [none |-> None]]
      [] OTHER ->
            [ok |-> FALSE, isDict |-> FALSE, dict |-> [none |-> None]]

(***************************************************************************)
(* _extract_image_urls: the tests and the per-element steps.               *)
(***************************************************************************)
max_scroll_attempts == 15

\* a URL must be longer than this
MinUrlLen == 30

ExclusionWords == {"avatar", "logo", "icon", "button"}

\* the selectors of Method 2 listed from the narrowest to the broadest
ImgSelectorsNarrowFirst ==
    <<"div[class*=\"item\"] img", "div[class*=\"serp\"] img", "a img", "img">>

\* the selectors of Method 2, in the order of the for loop
ImgSelectors ==
    <<"img", "a img", "div[class*=\"serp\"] img", "div[class*=\"item\"] img">>

\* the while condition with <= for < : one more iteration at the quota
LoopContinuesInclusive(acc, n, attempts) ==
    Cardinality(acc) <= n /\ attempts < max_scroll_attempts

\* the while condition of the crawl loop
LoopContinues(acc, n, attempts) ==
    Cardinality(acc) < n /\ attempts < max_scroll_attempts

\* the break test written with == : a set already past the quota goes on
QuotaReachedExact(acc, n) == Cardinality(acc) = n

\* the break test written with > : the quota itself does not stop the loop
QuotaReachedStrict(acc, n) == Cardinality(acc) > n

\* the break test after each element and each selector
QuotaReached(acc, n) == Cardinality(acc) >= n

\* Method 1, one anchor: the set after the anchor is read
LinkStep(acc, link) ==
    LET img_url == HrefImgUrl(link.href)
    IN  IF img_url # None /\ StartsWith(img_url, "http") /\ Len(img_url) > MinUrlLen
        THEN acc \cup {img_url}
        ELSE acc

\* the element is the reverse-search thumbnail, which the image loop skips
IsCbirThumb(img) ==
    LET c == img.attrs["class"]
    IN  Contains(IF c = None THEN "" ELSE c, "cbir-intent__thumb")

ProbeOrder == <<"src", "data-src", "data-image", "data-url", "data-lazy-src">>

\* src after the for loop over the standard attributes: the first value that
\* starts with http, else whatever the last attribute read held
AttrProbe(img) ==
    LET hit(k) == Truthy(img.attrs[ProbeOrder[k]])
                    /\ StartsWith(img.attrs[ProbeOrder[k]], "http")
    IN  IF \E k \in 1..Len(ProbeOrder) : hit(k)
        THEN img.attrs[ProbeOrder[
                CHOOSE k \in 1..Len(ProbeOrder) :
                    hit(k) /\ \A j \in 1..(k - 1) : ~hit(j)]]
        ELSE img.attrs[ProbeOrder[Len(ProbeOrder)]]

\* u.strip().split()[0] for the first candidate of a srcset
LStrip(s) ==
    IF \A i \in 1..Len(s) : SubSeq(s, i, i) = " " THEN ""
    ELSE SubSeq(s, CHOOSE i \in 1..Len(s) :
                        /\ SubSeq(s, i, i) # " "
                        /\ \A j \in 1..(i - 1) : SubSeq(s, j, j) = " ",
                Len(s))

FirstToken(s) ==
    LET t == LStrip(s)
        sp == IndexOf(t, " ")
    IN  IF sp = 0 THEN t ELSE SubSeq(t, 1, sp - 1)

\* the srcset fallback: src unless it is falsy and the first candidate of the
\* srcset starts with http
SrcsetProbe(img, src) ==
    LET srcset == img.attrs["srcset"]
        comma == IndexOf(srcset, ",")
        first == IF comma = 0 THEN srcset ELSE SubSeq(srcset, 1, comma - 1)
    IN  IF ~Truthy(src) /\ Truthy(srcset) /\ StartsWith(FirstToken(first), "http")
        THEN FirstToken(first)
        ELSE src

BemKeys == <<"url", "img_url", "origin_url", "preview_url">>

\* the data-bem fallback: the first truthy value among the known keys, else
\* the value of the last key present
BemProbe(img, src) ==
    LET data_bem == img.attrs["data-bem"]
        bem == JsonLoads(data_bem)
        has(k) == BemKeys[k] \in DOMAIN bem.dict
        val(k) == bem.dict[BemKeys[k]]
        stop(k) == has(k) /\ Truthy(val(k))
    IN  IF Truthy(src) \/ ~Truthy(data_bem) \/ ~bem.ok \/ ~bem.isDict THEN src
        ELSE IF \E k \in 1..Len(BemKeys) : stop(k)
        THEN val(CHOOSE k \in 1..Len(BemKeys) :
                    stop(k) /\ \A j \in 1..(k - 1) : ~stop(j))
        ELSE IF \E k \in 1..Len(BemKeys) : has(k)
        THEN val(CHOOSE k \in 1..Len(BemKeys) :
                    has(k) /\ \A j \in (k + 1)..Len(BemKeys) : ~has(j))
        ELSE src

\* the parent-href fallback
ParentProbe(img, src) ==
    IF Truthy(src) \/ img.parent_err THEN src
    ELSE IF HrefImgUrl(img.parent_href) # None THEN HrefImgUrl(img.parent_href)
    ELSE src

\* the candidate source of one image element
ImgCandidate(img) ==
    ParentProbe(img, BemProbe(img, SrcsetProbe(img, AttrProbe(img))))

\* the validation of an attribute-mined source
ImgUrlOk(src) ==
    /\ Truthy(src)
    /\ StartsWith(src, "http")
    /\ Len(src) > MinUrlLen
    /\ ~\E w \in ExclusionWords : Contains(Lower(src), w)

\* Method 2, one image element that is neither stale nor skipped: the set
\* after the element is examined
ImgStep(acc, img) ==
    LET src == ImgCandidate(img)
    IN  IF ImgUrlOk(src) THEN acc \cup {src} ELSE acc

\* reading the anchor raises inside the inner try: get_attribute on a stale
\* element, or urlparse on the href
LinkRaises(link) ==
    link.stale \/ (Truthy(link.href) /\ Contains(link.href, "img_url=")
                    /\ UrlparseRaises(link.href))

\* what reading each anchor of the model does: whether it raises, and the
\* URLs it adds
LinkReads ==
    {[raised |-> LinkRaises(link),
      adds |-> IF LinkRaises(link) THEN {} ELSE LinkStep({}, link)] :
        link \in LinkElems}

\* what examining each image element of the model does: whether the turn is
\* cut short by `continue` (a stale element, the reverse-search thumbnail),
\* and the URLs it adds
ImgReads ==
    {[skipped |-> img.stale \/ IsCbirThumb(img),
      adds |-> IF img.stale \/ IsCbirThumb(img) THEN {} ELSE ImgStep({}, img)] :
        img \in ImgElems}

(***************************************************************************)
(* One extraction pass (the body of the crawl loop from Method 1 to the    *)
(* end of Method 2) over a stored page.                                    *)
(***************************************************************************)
LinkSelector == "a[href*=\"img_url=\"]"

\* each anchor of the model with what reading it does
LinkTable ==
    {[elem |-> link,
      raised |-> LinkRaises(link),
      adds |-> IF LinkRaises(link) THEN {} ELSE LinkStep({}, link)] :
        link \in LinkElems}

\* each image element of the model with what examining it does: whether the
\* read raises, whether the turn is cut short by `continue`, the value of
\* src when the validation is reached, and the URLs added
ImgTable ==
    {[elem |-> img,
      raised |-> img.stale,
      skipped |-> img.stale \/ IsCbirThumb(img),
      src |-> IF img.stale \/ IsCbirThumb(img) THEN None ELSE ImgCandidate(img),
      adds |-> IF img.stale \/ IsCbirThumb(img) THEN {} ELSE ImgStep({}, img)] :
        img \in ImgElems}

\* no inner try: a turn that raises ends the loop over the list too
EndsLoopOnError(raised, reached) == raised \/ reached

\* a turn of an element loop ends the loop: only a turn that did not raise
\* gets to the break test (the inner except clause goes on with the next
\* element), and the test must find the quota reached
EndsLoop(raised, reached) == ~raised /\ reached

\* Method 1 over the anchors `reads`, in order: the set when the loop is
\* left, which is after the first turn that ends it
LinkLoop(reads, acc, n) ==
    LET upTo(i) == acc \cup UNION {reads[j].adds : j \in 1..i}
        ends == {i \in 1..Len(reads) :
                    EndsLoop(reads[i].raised, QuotaReached(upTo(i), n))}
    IN  IF ends = {} THEN upTo(Len(reads))
        ELSE upTo(CHOOSE i \in ends : \A j \in ends : i <= j)

\* Method 2, the loop over one selector's elements, in order; the turn of a
\* reverse-search thumbnail is cut short before the break test as well
ImgLoop(reads, acc, n) ==
    LET upTo(i) == acc \cup UNION {reads[j].adds : j \in 1..i}
        ends == {i \in 1..Len(reads) :
                    EndsLoop(reads[i].raised,
                             ~reads[i].skipped /\ QuotaReached(upTo(i), n))}
    IN  IF ends = {} THEN upTo(Len(reads))
        ELSE upTo(CHOOSE i \in ends : \A j \in ends : i <= j)

\* find_elements(selector) on a stored page: its image elements the selector
\* matches, in document order
ScopeElems(page, selector) ==
    LET pick[i \in 0..Len(page.imgs)] ==
            IF i = 0 THEN <<>>
            ELSE IF selector \in page.imgs[i].scopes
            THEN Append(pick[i - 1], page.imgs[i].read)
            ELSE pick[i - 1]
    IN  pick[Len(page.imgs)]

\* one pass over the page: Method 1, then Method 2 selector by selector.  A
\* find_elements that raises ends Method 1, or sends Method 2 to its next
\* selector past the break test.
ExtractPass(page, acc, n) ==
    LET afterLinks ==
            IF LinkSelector \in page.failing THEN acc
            ELSE LinkLoop(page.links, acc, n)
        \* one turn of the for loop over the selectors, from the state prev
        turn(prev, k) ==
            IF prev.left \/ ImgSelectors[k] \in page.failing THEN {prev}
            ELSE {[set |-> found, left |-> QuotaReached(found, n)] :
                    found \in {ImgLoop(ScopeElems(page, ImgSelectors[k]),
                                       prev.set, n)}}
        scope[k \in 0..Len(ImgSelectors)] ==
            IF k = 0 THEN [set |-> afterLinks, left |-> FALSE]
            ELSE CHOOSE next \in UNION {turn(prev, k) : prev \in {scope[k - 1]}} :
                    TRUE
    IN  scope[Len(ImgSelectors)].set

\* the sequences over S of length at most k
SeqsUpTo(S, k) == UNION {[1..j -> S] : j \in 0..k}

\* a page with nothing on it
EmptyPage == [links |-> <<>>, imgs |-> <<>>, failing |-> {}]

\* the selectors whose find_elements may raise on a stored page
FailChoices == {{}, {LinkSelector}, {"img"}}

\* stored pages with anchors and images: anchors that add a URL, go stale or
\* make urlparse raise; images inside and outside the result items
CrawlLinkPool ==
    {r \in LinkTable : r.elem.stale \/ r.elem.href \in {HrefCat, HrefWeb, HrefBracket}}

CrawlImgPool ==
    {[read |-> r, scopes |-> sc] :
        r \in {t \in ImgTable :
                t.elem \in {ImgWith("src", UCat), ImgWith("data-src", UDog),
                            [BlankImg EXCEPT !.stale = TRUE]}},
        sc \in {{"img"}, {"img", "a img", "div[class*=\"item\"] img"}}}

CrawlPages ==
    {[links |-> l, imgs |-> i, failing |-> f] :
        l \in SeqsUpTo(CrawlLinkPool, SnapLinks),
        i \in SeqsUpTo(CrawlImgPool, SnapImgs),
        f \in FailChoices}

\* stored pages with image elements only, every element of the model
ImagePages ==
    {[links |-> <<>>, imgs |-> i, failing |-> {}] :
        i \in SeqsUpTo({[read |-> r, scopes |-> {"img"}] : r \in ImgTable},
                       SnapImgs)}

StoredPages == CrawlPages \cup ImagePages

\* an image element with what fails on it taken away: no data-bem when its
\* text does not parse, a parent that is no link when the lookup raises
MendedImg(img) ==
    [img EXCEPT
        !.attrs["data-bem"] =
            IF Truthy(@) /\ ~JsonLoads(@).ok THEN None ELSE @,
        !.parent_err = FALSE,
        !.parent_href = IF img.parent_err THEN None ELSE @]

\* the row of the table for an image element of the model
ImgRead(img) == CHOOSE t \in ImgTable : t.elem = img

\* a stored page without the anchors and image elements whose read raises,
\* and with every other image element mended
WithoutErrors(page) ==
    LET keepLinks[i \in 0..Len(page.links)] ==
            IF i = 0 THEN <<>>
            ELSE IF page.links[i].raised THEN keepLinks[i - 1]
            ELSE Append(keepLinks[i - 1], page.links[i])
        keepImgs[i \in 0..Len(page.imgs)] ==
            IF i = 0 THEN <<>>
            ELSE IF page.imgs[i].read.raised THEN keepImgs[i - 1]
            ELSE Append(keepImgs[i - 1],
                        [page.imgs[i] EXCEPT !.read = ImgRead(MendedImg(@.elem))])
    IN  [links |-> keepLinks[Len(page.links)],
         imgs |-> keepImgs[Len(page.imgs)],
         failing |-> page.failing]

\* the recovery click tried after every empty pass
RecoveryDueAnyPass(acc, attempts) == Cardinality(acc) = 0

\* the recovery click is due: nothing found and the first pass just ended
RecoveryDue(acc, attempts) == Cardinality(acc) = 0 /\ attempts = 1

Min(a, b) == IF a < b THEN a ELSE b

\* the orders in which list(image_urls) may enumerate the set
Orderings(S) ==
    {f \in [1..Cardinality(S) -> S] :
        \A a, b \in 1..Cardinality(S) : a # b => f[a] # f[b]}

\* a return of the whole list, the slice forgotten
TruncateNone(list, n) == list

\* list[:n]
Truncate(list, n) == SubSeq(list, 1, Min(n, Len(list)))

(***************************************************************************)
(* The download loop: extension inference and the destination path.        *)
(***************************************************************************)
\* the extension chosen with .gif tested before .png
InferExtGifFirst(url) ==
    IF Contains(Lower(url), ".gif") THEN ".gif"
    ELSE IF Contains(Lower(url), ".png") THEN ".png"
    ELSE IF Contains(Lower(url), ".webp") THEN ".webp"
    ELSE ".jpg"

\* the extension chosen for a URL
InferExt(url) ==
    IF Contains(Lower(url), ".png") THEN ".png"
    ELSE IF Contains(Lower(url), ".gif") THEN ".gif"
    ELSE IF Contains(Lower(url), ".webp") THEN ".webp"
    ELSE ".jpg"

Digits == <<"0", "1", "2", "3", "4", "5", "6", "7", "8", "9">>

\* str(n) for n >= 0
IntStr(n) ==
    LET str[k \in 0..n] ==
            IF k < 10 THEN Digits[k + 1] ELSE str[k \div 10] \o Digits[(k % 10) + 1]
    IN  str[n]

\* s filled with zeros on the left up to width
ZeroFill(s, width) ==
    LET zeros[k \in 0..width] == IF k = 0 THEN "" ELSE "0" \o zeros[k - 1]
    IN  IF Len(s) >= width THEN s ELSE zeros[width - Len(s)] \o s

\* f"{n:03d}"
Pad3(n) == ZeroFill(IntStr(n), 3)

\* the folder of a run (folder_name as the caller gave it) and the file prefix
FolderOf(m) == IF m = "search" THEN "cat_images" ELSE "similar_images"

PrefixOf(m) == IF m = "search" THEN "image" ELSE "similar"

\* folder_path / f"{prefix}_{i:03d}{ext}"
FilePath(m, idx, ext) ==
    FolderOf(m) \o "/" \o PrefixOf(m) \o "_" \o Pad3(idx) \o ext

\* enumerate(image_urls) with its start forgotten
ItemIndexFromZero(done) == done

\* the index enumerate(image_urls, 1) gives the URL that follows `done` others
ItemIndex(done) == done + 1

\* the outcomes of one _download_image call; only "ok" returns True
TransferOutcomes == {"ok", "network_error", "http_status", "io_error"}

\* an except clause that catches the request errors only
TransferReturnsRequestsOnly(outcome) ==
    outcome \in {"ok", "network_error", "http_status"}

\* _download_image returns on this outcome instead of raising: its except
\* clause catches every Exception
TransferReturns(outcome) == outcome \in TransferOutcomes

\* downloaded after one _download_image call
CountDownload(count, outcome) == IF outcome = "ok" THEN count + 1 ELSE count

\* the selectors the initial wait tries, five seconds each
SearchWaitSelectors ==
    <<".serp-item", ".SimpleImage", "img[class*=\"serp\"]",
      "img[class*=\"thumb\"]", ".gallery", "div[class*=\"serp\"]">>

ReverseWaitSelectors ==
    <<".serp-item", "img[class*=\"serp\"]", "img[class*=\"thumb\"]",
      "a[href*=\"img_url=\"]", "div[class*=\"serp\"]">>

WaitSelectors(m) ==
    IF m = "search" THEN SearchWaitSelectors ELSE ReverseWaitSelectors

(***************************************************************************)
(* The state.                                                              *)
(***************************************************************************)
VARIABLES
    mode,             \* "search": search_and_download, "reverse": reverse_image_search
    num_images,       \* the argument num_images
    pc,               \* the position of the run
    ret,              \* <<v>> once the entry point returned v, <<>> before
    page_loaded,      \* the flag the wait loop sets
    waitIdx,          \* the selector the wait loop is at, 0 once a selector appeared
    camera_button,    \* reverse search: the button found, "skip", or None (also
                      \* once the results page is up and it is of no more use)
    image_urls,       \* the set _extract_image_urls accumulates
    scroll_attempts,  \* its counter
    last_height,      \* _scroll_page: the height last read, 0 outside it
    selIdx,           \* Method 2: the selector the loop is at, 0 outside it
    remaining,        \* the elements of the current list not yet visited
    urls,             \* the list _extract_image_urls returned
    accumulated,      \* history: the size of image_urls when it returned
    downloaded,       \* the success counter of the download loop
    calls,            \* the _download_image calls made, in order
    extractCalls,     \* history: invocations of _extract_image_urls
    scrollsThisCall,  \* history: scroll instructions of the _scroll_page call of this pass
    recoveryLog,      \* history: the recovery attempts, each with the pass and the set size
    linksFilled,      \* history: Method 1 of this pass ended with the quota reached
    examinedAfterFill,\* history: Method 2 examined an element in such a pass
    addedAfterFill,   \* history: Method 2 added a URL in such a pass
    folderCreated,    \* history: _create_folder was called
    navigated,        \* history: driver.get was called
    dom,              \* the stored page the pass-level runs read
    snapRuns,         \* the sets the passes over the stored page ended with
    perPass,          \* a page that grows: the new URLs it shows per iteration
    scrollCalls,      \* history: the calls of _scroll_page
    image_exists,     \* reverse search: image_path.exists()
    cameraSearch,     \* history: the search for the upload button or a file input
                      \* ("not_run", "none", "found")
    inputSearch,      \* history: the search for the file input after the click
    passScopes        \* history: the selectors find_elements was called with in
                      \* this pass, in order

vars ==
    <<mode, num_images, pc, ret, page_loaded, waitIdx, camera_button,
      image_urls, scroll_attempts, last_height, selIdx, remaining, urls,
      downloaded, calls, accumulated, extractCalls, scrollsThisCall, recoveryLog,
      linksFilled, examinedAfterFill, addedAfterFill, folderCreated, navigated,
      dom, snapRuns, perPass, scrollCalls, image_exists, cameraSearch,
      inputSearch, passScopes>>

\* what no step of an entry point changes: its arguments, and the stored page
\* with the results of the passes over it
entryVars ==
    <<mode, num_images, image_exists, dom, snapRuns, perPass, scrollCalls>>

navVars ==
    <<page_loaded, waitIdx, camera_button, folderCreated, navigated,
      cameraSearch, inputSearch>>

crawlVars == <<image_urls, scroll_attempts, last_height, selIdx, remaining>>

passHist == <<linksFilled, examinedAfterFill, addedAfterFill, passScopes>>

crawlHist == <<extractCalls, scrollsThisCall, recoveryLog, accumulated>>

dlVars == <<urls, downloaded, calls>>

Heights == 1..MaxHeight

InitRest ==
    /\ ret = <<>>
    /\ page_loaded = FALSE
    /\ waitIdx = 0
    /\ camera_button = None
    /\ image_urls = {}
    /\ scroll_attempts = 0
    /\ last_height = 0
    /\ selIdx = 0
    /\ remaining = 0
    /\ urls = <<>>
    /\ accumulated = 0
    /\ downloaded = 0
    /\ calls = <<>>
    /\ extractCalls = 0
    /\ scrollsThisCall = 0
    /\ recoveryLog = <<>>
    /\ linksFilled = FALSE
    /\ examinedAfterFill = FALSE
    /\ addedAfterFill = FALSE
    /\ folderCreated = FALSE
    /\ navigated = FALSE
    /\ cameraSearch = "not_run"
    /\ inputSearch = "not_run"
    /\ passScopes = <<>>

Init ==
    /\ mode \in {"search", "reverse"}
    /\ image_exists \in (IF mode = "reverse" THEN BOOLEAN ELSE {TRUE})
    /\ num_images \in 0..MaxNum
    /\ pc = "start"
    /\ InitRest
    /\ dom = EmptyPage
    /\ snapRuns = <<>>
    /\ perPass = 0
    /\ scrollCalls = 0

\* a return of the entry point with value v
Return(v) == pc' = "done" /\ ret' = <<v>>

(***************************************************************************)
(* search_and_download up to the wait, and reverse_image_search up to the  *)
(* wait.                                                                   *)
(***************************************************************************)
SearchNavigate ==
    /\ pc = "start" /\ mode = "search"
    /\ folderCreated' = TRUE
    /\ navigated' = TRUE
    /\ waitIdx' = 1
    /\ pc' = "wait"
    /\ UNCHANGED <<entryVars, ret, page_loaded, camera_button, cameraSearch,
                   inputSearch, crawlVars, dlVars, crawlHist, passHist>>

\* the reference image is missing: return 0 before anything else
ReverseMissingFile ==
    /\ pc = "start" /\ mode = "reverse"
    /\ ~image_exists
    /\ Return(0)
    /\ UNCHANGED <<entryVars, navVars, crawlVars, dlVars, crawlHist, passHist>>

ReverseNavigate ==
    /\ pc = "start" /\ mode = "reverse"
    /\ image_exists
    /\ folderCreated' = TRUE
    /\ navigated' = TRUE
    /\ pc' = "find_camera"
    /\ UNCHANGED <<entryVars, ret, page_loaded, waitIdx, camera_button,
                   cameraSearch, inputSearch, crawlVars, dlVars, crawlHist,
                   passHist>>

\* the search for the button with its `return 0` forgotten: the run goes on
\* to look for the file input
AfterCameraSearchNoReturn(button) ==
    IF button = "button" THEN "click_camera" ELSE "find_input"

\* after the search: `if not camera_button: return 0`, the click unless the
\* marker is "skip", then the search for the file input
AfterCameraSearch(button) ==
    IF button = None THEN "done"
    ELSE IF button = "skip" THEN "find_input"
    ELSE "click_camera"

\* the search for the upload button, then for a file input already present
FindCamera ==
    /\ pc = "find_camera"
    /\ \E found \in {"button", "skip", None} :
        /\ camera_button' = found
        /\ cameraSearch' = IF found = None THEN "none" ELSE "found"
        /\ pc' = AfterCameraSearch(found)
        /\ ret' = IF AfterCameraSearch(found) = "done" THEN <<0>> ELSE ret
    /\ UNCHANGED <<entryVars, page_loaded, waitIdx, folderCreated, navigated,
                   inputSearch, crawlVars, dlVars, crawlHist, passHist>>

ClickCamera ==
    /\ pc = "click_camera"
    /\ \E clicked \in BOOLEAN :
        IF clicked THEN pc' = "find_input" /\ ret' = ret ELSE Return(0)
    /\ UNCHANGED <<entryVars, navVars, crawlVars, dlVars, crawlHist, passHist>>

\* the search for the file input over its three selectors; `if not
\* file_input: return 0`
FindFileInput ==
    /\ pc = "find_input"
    /\ \E found \in BOOLEAN :
        /\ inputSearch' = IF found THEN "found" ELSE "none"
        /\ IF found THEN pc' = "upload" /\ ret' = ret ELSE Return(0)
    /\ UNCHANGED <<entryVars, page_loaded, waitIdx, camera_button, folderCreated,
                   navigated, cameraSearch, crawlVars, dlVars, crawlHist,
                   passHist>>

Upload ==
    /\ pc = "upload"
    /\ \E sent \in BOOLEAN :
        IF sent THEN pc' = "wait" /\ waitIdx' = 1 /\ ret' = ret
        ELSE Return(0) /\ waitIdx' = waitIdx
    /\ UNCHANGED <<entryVars, page_loaded, camera_button, folderCreated,
                   navigated, cameraSearch, inputSearch, crawlVars, dlVars,
                   crawlHist, passHist>>

\* the wait loop with its `return 0` forgotten
AfterWaitNoReturn(loaded) == "extract"

\* after the wait loop: `if not page_loaded: return 0`, else go on to extract
AfterWait(loaded) == IF loaded THEN "extract" ELSE "done"

\* one turn of the wait loop: the selector appears, or its wait times out
WaitSelector ==
    /\ pc = "wait"
    /\ \E appeared \in BOOLEAN :
        IF appeared
        THEN /\ page_loaded' = TRUE
             /\ pc' = AfterWait(TRUE)
             /\ waitIdx' = 0
             /\ camera_button' = None
             /\ ret' = ret
        ELSE IF waitIdx < Len(WaitSelectors(mode))
        THEN /\ waitIdx' = waitIdx + 1
             /\ UNCHANGED <<pc, page_loaded, ret, camera_button>>
        ELSE /\ pc' = AfterWait(page_loaded)
             /\ ret' = IF AfterWait(page_loaded) = "done" THEN <<0>> ELSE ret
             /\ UNCHANGED <<page_loaded, waitIdx, camera_button>>
    /\ UNCHANGED <<entryVars, folderCreated, navigated, cameraSearch,
                   inputSearch, crawlVars, dlVars, crawlHist, passHist>>

\* the call of _extract_image_urls
ExtractCall ==
    /\ pc = "extract"
    /\ extractCalls' = extractCalls + 1
    /\ image_urls' = {}
    /\ scroll_attempts' = 0
    /\ pc' = "crawl"
    /\ UNCHANGED <<entryVars, ret, navVars, last_height, selIdx, remaining,
                   dlVars, scrollsThisCall, recoveryLog, accumulated, passHist>>

(***************************************************************************)
(* _extract_image_urls: the crawl loop.                                    *)
(***************************************************************************)
\* the while test; a pass scrolls first unless it is the first one
CrawlLoopTest ==
    /\ pc = "crawl"
    /\ IF LoopContinues(image_urls, num_images, scroll_attempts)
       THEN pc' = IF scroll_attempts > 0 THEN "scroll" ELSE "links"
       ELSE pc' = "return_urls"
    /\ UNCHANGED <<entryVars, ret, navVars, crawlVars, dlVars, crawlHist,
                   passHist>>

\* _scroll_page: the first read of document.body.scrollHeight
ScrollStart ==
    /\ pc = "scroll"
    /\ \E h \in Heights : last_height' = h
    /\ pc' = "scroll_loop"
    /\ UNCHANGED <<entryVars, ret, navVars, image_urls, scroll_attempts, selIdx,
                   remaining, dlVars, crawlHist, passHist>>

\* _scroll_page leaves its loop on this test
ScrollSettled(new_height, last) == new_height = last

\* _scroll_page: one turn of its while True loop: scroll to the bottom, pause,
\* read the height again
ScrollStep ==
    /\ pc = "scroll_loop"
    /\ \E new_height \in Heights :
        IF ScrollSettled(new_height, last_height)
        THEN pc' = "links" /\ last_height' = 0
        ELSE pc' = pc /\ last_height' = new_height
    /\ scrollsThisCall' = Min(scrollsThisCall + 1, ScrollCap)
    /\ UNCHANGED <<entryVars, ret, navVars, image_urls, scroll_attempts, selIdx,
                   remaining, dlVars, extractCalls, recoveryLog, accumulated,
                   passHist>>

\* Method 1 is over: Method 2 starts at its first selector
EndLinks(found) ==
    /\ pc' = "images"
    /\ selIdx' = 1
    /\ remaining' = 0
    /\ linksFilled' = QuotaReached(found, num_images)

\* Method 1: find_elements for the anchors raises, or returns n anchors
FindLinks ==
    /\ pc = "links"
    /\ \/ EndLinks(image_urls)
       \/ \E n \in 0..MaxElems :
            IF n = 0 THEN EndLinks(image_urls)
            ELSE /\ pc' = "link_loop"
                 /\ remaining' = n
                 /\ UNCHANGED <<selIdx, linksFilled>>
    /\ scrollsThisCall' = 0
    /\ passScopes' = Append(passScopes, LinkSelector)
    /\ UNCHANGED <<entryVars, ret, navVars, image_urls, scroll_attempts,
                   last_height, dlVars, extractCalls, recoveryLog, accumulated,
                   examinedAfterFill, addedAfterFill>>

\* Method 1: one anchor.  A stale anchor raises inside the inner try, which
\* skips the break test of that turn.
ProcessLink ==
    /\ pc = "link_loop"
    /\ \E link \in LinkReads :
        LET found == image_urls \cup link.adds
            stop == ~link.raised /\ QuotaReached(found, num_images)
        IN  /\ image_urls' = found
            /\ IF stop \/ remaining = 1
               THEN EndLinks(found)
               ELSE /\ remaining' = remaining - 1
                    /\ UNCHANGED <<pc, selIdx, linksFilled>>
    /\ UNCHANGED <<entryVars, ret, navVars, scroll_attempts, last_height,
                   dlVars, crawlHist, examinedAfterFill, addedAfterFill,
                   passScopes>>

\* Method 2: the for loop over the selectors moves on, or ends the pass
NextSelector ==
    /\ remaining' = 0
    /\ IF selIdx < Len(ImgSelectors)
       THEN pc' = "images" /\ selIdx' = selIdx + 1
       ELSE pc' = "post_pass" /\ selIdx' = 0

\* Method 2: the loop over one selector's elements is over; the break test
\* that follows it
EndImgLoop(found) ==
    IF QuotaReached(found, num_images)
    THEN pc' = "post_pass" /\ selIdx' = 0 /\ remaining' = 0
    ELSE NextSelector

\* Method 2: find_elements for the selector raises (the except of the
\* selector's try, past its break test), or returns n elements
FindImages ==
    /\ pc = "images"
    /\ \/ NextSelector
       \/ \E n \in 0..MaxElems :
            IF n = 0 THEN EndImgLoop(image_urls)
            ELSE pc' = "img_loop" /\ remaining' = n /\ selIdx' = selIdx
    /\ passScopes' = Append(passScopes, ImgSelectors[selIdx])
    /\ UNCHANGED <<entryVars, ret, navVars, image_urls, scroll_attempts,
                   last_height, dlVars, crawlHist, linksFilled,
                   examinedAfterFill, addedAfterFill>>

\* Method 2: one image element.  A stale element raises and a thumbnail of
\* the reverse search is skipped: both `continue` past the break test.
ProcessImage ==
    /\ pc = "img_loop"
    /\ \E img \in ImgReads :
        LET found == image_urls \cup img.adds
            stop == ~img.skipped /\ QuotaReached(found, num_images)
        IN  /\ image_urls' = found
            /\ examinedAfterFill' =
                    (examinedAfterFill \/ (linksFilled /\ ~img.skipped))
            /\ addedAfterFill' =
                    (addedAfterFill \/ (linksFilled /\ found # image_urls))
            /\ IF stop \/ remaining = 1
               THEN EndImgLoop(found)
               ELSE /\ remaining' = remaining - 1
                    /\ UNCHANGED <<pc, selIdx>>
    /\ UNCHANGED <<entryVars, ret, navVars, scroll_attempts, last_height,
                   dlVars, crawlHist, linksFilled, passScopes>>

\* the end of a pass: count it, and try the recovery click when it is due.
\* The attempt may find nothing to click, click, or raise inside its try:
\* none of these outcomes changes anything the run reads later.
PostPass ==
    /\ pc = "post_pass"
    /\ scroll_attempts' = scroll_attempts + 1
    /\ IF RecoveryDue(image_urls, scroll_attempts + 1)
       THEN recoveryLog' = Append(recoveryLog,
                [pass |-> scroll_attempts + 1,
                 found |-> Cardinality(image_urls)])
       ELSE recoveryLog' = recoveryLog
    /\ linksFilled' = FALSE
    /\ examinedAfterFill' = FALSE
    /\ addedAfterFill' = FALSE
    /\ passScopes' = <<>>
    /\ pc' = "crawl"
    /\ UNCHANGED <<entryVars, ret, navVars, image_urls, last_height, selIdx,
                   remaining, dlVars, extractCalls, scrollsThisCall, accumulated>>

\* return list(image_urls)[:num_images]
ReturnUrls ==
    /\ pc = "return_urls"
    /\ \E list \in Orderings(image_urls) : urls' = Truncate(list, num_images)
    /\ accumulated' = Cardinality(image_urls)
    /\ image_urls' = {}
    /\ scroll_attempts' = 0
    /\ pc' = "extracted"
    /\ UNCHANGED <<entryVars, ret, navVars, last_height, selIdx, remaining,
                   downloaded, calls, extractCalls, scrollsThisCall,
                   recoveryLog, passHist>>

(***************************************************************************)
(* The download loop of both entry points.                                 *)
(***************************************************************************)
\* `if not image_urls: return 0`, else the loop starts
StartDownload ==
    /\ pc = "extracted"
    /\ IF Len(urls) = 0 THEN Return(0) ELSE pc' = "download" /\ ret' = ret
    /\ downloaded' = 0
    /\ UNCHANGED <<entryVars, navVars, crawlVars, urls, calls, crawlHist,
                   passHist>>

\* one turn of the loop: the next URL, its path, one _download_image call.
\* An exception out of _download_image would leave the entry point ("raised").
DownloadStep ==
    /\ pc = "download"
    /\ \E outcome \in TransferOutcomes :
        LET k == Len(calls) + 1
            idx == ItemIndex(Len(calls))
            url == urls[k]
        IN  /\ calls' = Append(calls,
                    [url |-> url, index |-> idx, ext |-> InferExt(url),
                     filepath |-> FilePath(mode, idx, InferExt(url)),
                     ok |-> (outcome = "ok")])
            /\ IF ~TransferReturns(outcome)
               THEN pc' = "raised" /\ UNCHANGED <<ret, downloaded>>
               ELSE /\ downloaded' = CountDownload(downloaded, outcome)
                    /\ IF k = Len(urls)
                       THEN Return(CountDownload(downloaded, outcome))
                       ELSE UNCHANGED <<pc, ret>>
    /\ UNCHANGED <<entryVars, navVars, crawlVars, urls, crawlHist, passHist>>

Next ==
    \/ SearchNavigate
    \/ ReverseMissingFile
    \/ ReverseNavigate
    \/ FindCamera
    \/ ClickCamera
    \/ FindFileInput
    \/ Upload
    \/ WaitSelector
    \/ ExtractCall
    \/ CrawlLoopTest
    \/ ScrollStart
    \/ ScrollStep
    \/ FindLinks
    \/ ProcessLink
    \/ FindImages
    \/ ProcessImage
    \/ PostPass
    \/ ReturnUrls
    \/ StartDownload
    \/ DownloadStep

Spec == Init /\ [][Next]_vars

\* the run is one sequential thread: a step that can be taken is taken
FairSpec == Spec /\ WF_vars(Next)

(***************************************************************************)
(* The download loop on its own, over a wider set of URLs: the run starts  *)
(* where _extract_image_urls has just returned a list.                     *)
(***************************************************************************)
ExtStem == "https://img.example.com/photos/x"

ExtSegments ==
    {"", ".png", ".PNG", ".gif", ".Gif", ".webp", ".WEBP", ".jpg", ".pn", "/gif"}

\* URLs with two segments after the stem: every pair of markers, both cases
ExtUrls == {ExtStem \o a \o b : a, b \in ExtSegments}

InitDownload ==
    /\ mode \in {"search", "reverse"}
    /\ num_images = 1
    /\ pc = "extracted"
    /\ ret = <<>>
    /\ page_loaded = TRUE
    /\ waitIdx = 0
    /\ camera_button = None
    /\ image_urls = {}
    /\ scroll_attempts = 0
    /\ last_height = 0
    /\ selIdx = 0
    /\ remaining = 0
    /\ urls \in {<<u>> : u \in ExtUrls} \cup {<<>>}
    /\ accumulated = Len(urls)
    /\ downloaded = 0
    /\ calls = <<>>
    /\ extractCalls = 1
    /\ scrollsThisCall = 0
    /\ recoveryLog = <<>>
    /\ linksFilled = FALSE
    /\ examinedAfterFill = FALSE
    /\ addedAfterFill = FALSE
    /\ folderCreated = TRUE
    /\ navigated = TRUE
    /\ dom = EmptyPage
    /\ snapRuns = <<>>
    /\ perPass = 0
    /\ scrollCalls = 0
    /\ image_exists = TRUE
    /\ cameraSearch = (IF mode = "reverse" THEN "found" ELSE "not_run")
    /\ inputSearch = (IF mode = "reverse" THEN "found" ELSE "not_run")
    /\ passScopes = <<>>

NextDownload == StartDownload \/ DownloadStep

SpecDownload == InitDownload /\ [][NextDownload]_vars

(***************************************************************************)
(* The extraction pass on its own: the page is stored, so that the pass    *)
(* can be run over the same page more than once.                           *)
(***************************************************************************)
passRest ==
    <<mode, num_images, image_exists, dom, perPass, scrollCalls, ret, navVars, scroll_attempts, last_height, selIdx,
      remaining, dlVars, crawlHist, passHist>>

InitPass ==
    /\ mode = "search"
    /\ image_exists = TRUE
    /\ num_images \in 0..MaxNum
    /\ pc = "pass_first"
    /\ InitRest
    /\ dom \in StoredPages
    /\ snapRuns = <<>>
    /\ perPass = 0
    /\ scrollCalls = 0

\* a pass over the page, the set empty before it
PassFirst ==
    /\ pc = "pass_first"
    /\ \E found \in {ExtractPass(dom, {}, num_images)} :
            image_urls' = found /\ snapRuns' = Append(snapRuns, found)
    /\ pc' = "pass_second"
    /\ UNCHANGED passRest

\* a second pass over the same page, the set as the first pass left it
PassSecond ==
    /\ pc = "pass_second"
    /\ \E found \in {ExtractPass(dom, image_urls, num_images)} :
            image_urls' = found /\ snapRuns' = Append(snapRuns, found)
    /\ pc' = "pass_mended"
    /\ UNCHANGED passRest

\* a pass over the page with its failing elements taken out, the set empty
\* before it
PassMended ==
    /\ pc = "pass_mended"
    /\ \E found \in {ExtractPass(WithoutErrors(dom), {}, num_images)} :
            image_urls' = found /\ snapRuns' = Append(snapRuns, found)
    /\ pc' = "pass_done"
    /\ UNCHANGED passRest

NextPass == PassFirst \/ PassSecond \/ PassMended

SpecPass == InitPass /\ [][NextPass]_vars

(***************************************************************************)
(* The crawl loop over a page that grows: every iteration finds the page   *)
(* of the iteration before with perPass more URLs on it, some on anchors   *)
(* and the others on image elements.  Every call of _scroll_page is taken  *)
(* to settle.                                                              *)
(***************************************************************************)
PoolSize == MaxQuota + MaxPerPass + MaxPerPass

\* the i-th URL of the growing page, the anchor that carries it and the
\* image element that carries it, each with what reading it does
FreshUrl(i) == "https://img.example.com/photos/p" \o IntStr(i) \o ".jpg"

FreshHref(i) ==
    "https://yandex.com/images/search?img_url=https%3A%2F%2Fimg.example.com%2Fphotos%2Fp"
        \o IntStr(i) \o ".jpg"

FreshTable ==
    {[id |-> i,
      anchor |-> [elem |-> [href |-> FreshHref(i), stale |-> FALSE],
                  raised |-> FALSE,
                  adds |-> LinkStep({}, [href |-> FreshHref(i), stale |-> FALSE])],
      image |-> [read |-> [elem |-> ImgWith("src", FreshUrl(i)),
                           raised |-> FALSE,
                           skipped |-> FALSE,
                           src |-> ImgCandidate(ImgWith("src", FreshUrl(i))),
                           adds |-> ImgStep({}, ImgWith("src", FreshUrl(i)))],
                 scopes |-> {"img"}]] :
        i \in 1..PoolSize}

Fresh(i) == CHOOSE t \in FreshTable : t.id = i

\* the page after it grew by the URLs first+1..first+count, the first
\* onAnchors of them on anchors
GrownPage(page, first, count, onAnchors) ==
    [links |-> page.links \o [j \in 1..onAnchors |-> Fresh(first + j).anchor],
     imgs |-> page.imgs
                \o [j \in 1..(count - onAnchors) |-> Fresh(first + onAnchors + j).image],
     failing |-> {}]

crawlSnapRest ==
    <<mode, num_images, image_exists, perPass, ret, navVars, last_height, selIdx, remaining,
      downloaded, calls, extractCalls, scrollsThisCall, passHist>>

InitCrawl ==
    /\ mode = "search"
    /\ image_exists = TRUE
    /\ num_images \in 1..MaxQuota
    /\ perPass \in 1..MaxPerPass
    /\ pc = "crawl_snap"
    /\ InitRest
    /\ dom = EmptyPage
    /\ snapRuns = <<>>
    /\ scrollCalls = 0

\* one iteration of the while loop: the scroll unless it is the first
\* iteration, the pass over the page as it then is, the counter, the
\* recovery click when it is due
CrawlIterate ==
    /\ pc = "crawl_snap"
    /\ LoopContinues(image_urls, num_images, scroll_attempts)
    /\ scrollCalls' = IF scroll_attempts > 0 THEN scrollCalls + 1 ELSE scrollCalls
    /\ \E onAnchors \in 0..perPass :
        \E page \in {GrownPage(dom, scroll_attempts * perPass, perPass, onAnchors)} :
        \E found \in {ExtractPass(page, image_urls, num_images)} :
            /\ dom' = page
            /\ image_urls' = found
            /\ snapRuns' = Append(snapRuns, found)
            /\ recoveryLog' =
                    IF RecoveryDue(found, scroll_attempts + 1)
                    THEN Append(recoveryLog,
                            [pass |-> scroll_attempts + 1, found |-> Cardinality(found)])
                    ELSE recoveryLog
    /\ scroll_attempts' = scroll_attempts + 1
    /\ UNCHANGED <<pc, urls, accumulated>>
    /\ UNCHANGED crawlSnapRest

\* the while condition fails: return list(image_urls)[:num_images]
CrawlReturn ==
    /\ pc = "crawl_snap"
    /\ ~LoopContinues(image_urls, num_images, scroll_attempts)
    /\ \E list \in Orderings(image_urls) : urls' = Truncate(list, num_images)
    /\ accumulated' = Cardinality(image_urls)
    /\ pc' = "crawl_returned"
    /\ UNCHANGED <<dom, snapRuns, scrollCalls, image_urls, scroll_attempts,
                   recoveryLog>>
    /\ UNCHANGED crawlSnapRest

NextCrawl == CrawlIterate \/ CrawlReturn

SpecCrawl == InitCrawl /\ [][NextCrawl]_vars

(***************************************************************************)
(* The claims.                                                             *)
(***************************************************************************)

\* C1: every call of _extract_image_urls returns, whatever the page does:
\* a run that has entered the crawl loop reaches the point where the list
\* is handed back.
C1_ExtractReturns == (pc = "crawl") ~> (pc = "extracted")

\* C2: the list _extract_image_urls returns has at most num_images entries
\* and no URL twice.
C2_ReturnedListCapped ==
    /\ Len(urls) <= num_images
    /\ \A a, b \in 1..Len(urls) : a # b => urls[a] # urls[b]

\* C2 witness: the accumulated set was larger than num_images at the return
\* and the list came back cut to num_images.
C2_Witness ==
    /\ pc = "extracted"
    /\ accumulated > num_images
    /\ Len(urls) = num_images
    /\ num_images >= 1

\* the Candidate URL invariants of the specification
CandidateOk(u) ==
    /\ StartsWith(u, "http://") \/ StartsWith(u, "https://")
    /\ Len(u) > 30
    /\ ~\E w \in {"avatar", "logo", "icon", "button"} : Contains(Lower(u), w)

\* C3: every URL in the accumulated set satisfies the Candidate URL
\* invariants (scheme, length above 30, no exclusion word).
C3_OnlyCandidateUrls == \A u \in image_urls : CandidateOk(u)

\* the file name the claim gives the k-th item, k below 10
C4_Name(m, k, ext) ==
    (IF m = "search" THEN "cat_images/image_" ELSE "similar_images/similar_")
        \o "00" \o Digits[k + 1] \o ext

\* C4: _download_image is called once per URL, in the order of the list, the
\* k-th call with index k and the path <folder>/<prefix>_<00k><extension>;
\* when the loop is over there are exactly as many calls as URLs.
C4_OneCallPerUrlInOrder ==
    /\ Len(calls) <= Len(urls)
    /\ \A k \in 1..Len(calls) :
        /\ calls[k].url = urls[k]
        /\ calls[k].index = k
        /\ calls[k].filepath = C4_Name(mode, k, calls[k].ext)
    /\ (pc = "done" /\ Len(urls) > 0) => Len(calls) = Len(urls)

\* C4 witness: a finished run of at least two downloads.
C4_Witness == pc = "done" /\ Len(calls) >= 2 /\ Len(calls) = Len(urls)

\* the calls that succeeded
OkCalls == {k \in 1..Len(calls) : calls[k].ok}

\* C5: a failed transfer fails that item only: the loop never ends by an
\* exception, every URL is attempted, and the value returned is the number
\* of transfers that succeeded.
C5_FailureIsolated ==
    /\ pc # "raised"
    /\ downloaded = Cardinality(OkCalls)
    /\ (pc = "done" /\ Len(urls) > 0) =>
            /\ Len(calls) = Len(urls)
            /\ ret = <<Cardinality(OkCalls)>>
            /\ Cardinality(OkCalls) + Cardinality((1..Len(calls)) \ OkCalls)
                    = Len(urls)

\* C5 witness: the first transfer failed, a later one succeeded, and the run
\* returned the count.
C5_Witness ==
    /\ pc = "done"
    /\ Len(calls) >= 2
    /\ ~calls[1].ok
    /\ calls[2].ok
    /\ ret = <<1>>

\* every selector of the wait loop timed out
WaitExhausted ==
    /\ navigated
    /\ ~page_loaded
    /\ pc # "wait"
    /\ waitIdx = Len(WaitSelectors(mode))

\* C6: when no result marker renders within the wait, the entry point
\* returns 0, and neither the extractor nor a download is ever invoked.
C6_NoMarkerNoExtraction ==
    WaitExhausted =>
        /\ pc = "done"
        /\ ret = <<0>>
        /\ extractCalls = 0
        /\ Len(calls) = 0

\* C6 witness: a text search whose wait ran through all its selectors.
C6_Witness == WaitExhausted /\ mode = "search" /\ pc = "done" /\ ret = <<0>>

\* C7: a crawl iteration issues one scroll instruction, never a second one.
C7_OneScrollPerIteration == scrollsThisCall <= 1

\* C8: the recovery click is attempted at most once in a crawl, and only
\* right after the first pass, with nothing found.
C8_RecoveryOnce ==
    /\ Len(recoveryLog) <= 1
    /\ \A k \in 1..Len(recoveryLog) :
        recoveryLog[k].pass = 1 /\ recoveryLog[k].found = 0

\* C8 witness: the recovery was attempted, and two more passes ended with
\* nothing found without another attempt.
C8_Witness ==
    /\ Len(recoveryLog) = 1
    /\ scroll_attempts >= 3
    /\ image_urls = {}
    /\ pc = "crawl"

\* C9: in a pass where link-mining reaches the quota, attribute-mining
\* examines no image element and adds no URL.
C9_ShortCircuit == linksFilled => (~examinedAfterFill /\ ~addedAfterFill)

\* C10: the extension is .png when the lower-cased URL holds .png, else .gif
\* when it holds .gif, else .webp when it holds .webp, else .jpg.
C10_ExtensionByFirstMatch ==
    \A k \in 1..Len(calls) :
        LET u == Lower(calls[k].url)
            png == Contains(u, ".png")
            gif == Contains(u, ".gif")
            webp == Contains(u, ".webp")
        IN  /\ png => calls[k].ext = ".png"
            /\ (~png /\ gif) => calls[k].ext = ".gif"
            /\ (~png /\ ~gif /\ webp) => calls[k].ext = ".webp"
            /\ (~png /\ ~gif /\ ~webp) => calls[k].ext = ".jpg"

\* C10 witness: a URL holding .gif and, in upper case, .PNG got .png.
C10_Witness ==
    /\ Len(calls) = 1
    /\ calls[1].url = ExtStem \o ".gif" \o ".PNG"
    /\ calls[1].ext = ".png"

\* C11: a second extraction pass over an unchanged page, with the same quota,
\* adds no URL to the set the first pass left: it ends with the same set.
C11_PassIdempotent ==
    Len(snapRuns) >= 2 => snapRuns[2] = snapRuns[1]

\* C11 witness: the first pass stopped at the quota before an anchor that
\* offers another URL, and the second pass over the same page left the set
\* as it was.
C11_Witness ==
    /\ Len(snapRuns) >= 2
    /\ num_images >= 1
    /\ Cardinality(snapRuns[1]) >= num_images
    /\ \E i \in 1..Len(dom.links) :
            ~dom.links[i].raised /\ ~(dom.links[i].adds \subseteq snapRuns[1])
    /\ snapRuns[2] = snapRuns[1]

\* an image element whose class marks it as an avatar
AvatarClassed(img) ==
    img.attrs["class"] # None /\ Contains(Lower(img.attrs["class"]), "avatar")

\* the URLs of the image elements of the stored page that carry a valid
\* candidate and are not avatars
ValidImageUrls ==
    UNION {dom.imgs[i].read.adds :
            i \in {j \in 1..Len(dom.imgs) : ~AvatarClassed(dom.imgs[j].read.elem)}}

\* the stored page is the page of the scenario: no anchors, and image
\* elements that are either avatars or carry a valid candidate, at least one
\* of each
AvatarScenario ==
    /\ dom.links = <<>>
    /\ dom.failing = {}
    /\ \E i \in 1..Len(dom.imgs) : AvatarClassed(dom.imgs[i].read.elem)
    /\ \E i \in 1..Len(dom.imgs) : ~AvatarClassed(dom.imgs[i].read.elem)
    /\ \A i \in 1..Len(dom.imgs) :
            \/ AvatarClassed(dom.imgs[i].read.elem)
            \/ /\ ~dom.imgs[i].read.skipped
               /\ dom.imgs[i].read.elem.attrs["class"] = None
               /\ dom.imgs[i].read.adds # {}

\* C12: over a page with k valid image elements and avatar-classed elements,
\* with a quota above k, the pass ends with exactly the k valid URLs.
C12_AvatarClassSkipped ==
    (Len(snapRuns) >= 1 /\ AvatarScenario
        /\ num_images > Cardinality(ValidImageUrls))
    => snapRuns[1] = ValidImageUrls

\* ceil(a / b)
Ceil(a, b) == (a + b - 1) \div b

\* C13: when every iteration finds perPass new URLs and the quota is
\* num_images, the loop is left after exactly ceil(num_images / perPass)
\* iterations (as many passes, one scroll fewer) and exactly num_images URLs
\* come back.
C13_StopsAtQuota ==
    /\ scroll_attempts <= Ceil(num_images, perPass)
    /\ pc = "crawl_returned" =>
            /\ scroll_attempts = Ceil(num_images, perPass)
            /\ Len(snapRuns) = Ceil(num_images, perPass)
            /\ scrollCalls = Ceil(num_images, perPass) - 1
            /\ Len(urls) = num_images

\* C13 witness: quota 5, 2 new URLs per iteration: back after 3 iterations
\* with 5 URLs, 6 found.
C13_Witness ==
    /\ pc = "crawl_returned"
    /\ num_images = 5
    /\ perPass = 2
    /\ scroll_attempts = 3
    /\ accumulated = 6
    /\ Len(urls) = 5

\* C14: a reverse search whose reference image is missing, or that finds
\* neither an upload button nor a file input, returns 0, runs no extraction
\* and attempts no download; with the image missing it also never opens the
\* page and creates no folder.
C14_InputNotFound ==
    mode = "reverse" =>
        /\ ~image_exists =>
                /\ pc \in {"start", "done"}
                /\ pc = "done" => ret = <<0>>
                /\ ~navigated /\ ~folderCreated
                /\ extractCalls = 0 /\ Len(calls) = 0
        /\ (cameraSearch = "none" \/ inputSearch = "none") =>
                /\ pc = "done" /\ ret = <<0>>
                /\ extractCalls = 0 /\ Len(calls) = 0

\* C14 witness: the page showed neither a button nor a file input, and the
\* run returned 0.
C14_Witness ==
    /\ mode = "reverse"
    /\ navigated
    /\ cameraSearch = "none"
    /\ pc = "done"
    /\ ret = <<0>>

\* the scopes of attribute-mining that are narrower than the bare img tag
NarrowScopes ==
    {"a img", "div[class*=\"serp\"] img", "div[class*=\"item\"] img"}

\* C16: within a pass link-mining runs first and the bare img scope is
\* examined only after every narrower scope has been examined.
C16_NarrowestFirst ==
    /\ Len(passScopes) >= 1 => passScopes[1] = "a[href*=\"img_url=\"]"
    /\ \A i \in 1..Len(passScopes) :
            passScopes[i] = "img" =>
                \A sel \in NarrowScopes : \E j \in 1..(i - 1) : passScopes[j] = sel

\* the order of a pass: the anchors, then the image scopes from the bare img
\* tag to the images inside result items
BroadestFirstOrder ==
    <<"a[href*=\"img_url=\"]", "img", "a img", "div[class*=\"serp\"] img",
      "div[class*=\"item\"] img">>

\* C16 as amended: within a pass link-mining runs first, then the scopes from
\* the broadest to the narrowest; a narrower scope is examined only after
\* every broader one has been tried in the pass.
C16_BroadestFirst ==
    /\ Len(passScopes) <= Len(BroadestFirstOrder)
    /\ \A i \in 1..Len(passScopes) : passScopes[i] = BroadestFirstOrder[i]

\* C16 witness: a pass that tried the anchors and all four image scopes and
\* is examining the elements of the narrowest.
C16_Witness ==
    /\ pc = "img_loop"
    /\ Len(passScopes) = 5
    /\ passScopes[5] = "div[class*=\"item\"] img"

\* the value is an absolute HTTP(S) URL
IsHttpUrl(v) == v # None /\ (StartsWith(v, "http://") \/ StartsWith(v, "https://"))

\* the candidate source the claim gives an image element: the first of the
\* five attributes that holds an absolute HTTP(S) URL, else the first token of
\* the first srcset candidate, else the first data-bem key with a value, else
\* the img_url of the parent's href, else None
C15_Candidate(img) ==
    LET attr(k) == img.attrs[ProbeOrder[k]]
        srcset == img.attrs["srcset"]
        comma == IndexOf(srcset, ",")
        first == IF comma = 0 THEN srcset ELSE SubSeq(srcset, 1, comma - 1)
        bem == JsonLoads(img.attrs["data-bem"])
        held(k) == /\ bem.ok /\ bem.isDict
                   /\ BemKeys[k] \in DOMAIN bem.dict
                   /\ Truthy(bem.dict[BemKeys[k]])
    IN  IF \E k \in 1..Len(ProbeOrder) : IsHttpUrl(attr(k))
        THEN attr(CHOOSE k \in 1..Len(ProbeOrder) :
                    IsHttpUrl(attr(k)) /\ \A j \in 1..(k - 1) : ~IsHttpUrl(attr(j)))
        ELSE IF Truthy(srcset) /\ IsHttpUrl(FirstToken(first))
        THEN FirstToken(first)
        ELSE IF \E k \in 1..Len(BemKeys) : held(k)
        THEN bem.dict[BemKeys[CHOOSE k \in 1..Len(BemKeys) :
                                held(k) /\ \A j \in 1..(k - 1) : ~held(j)]]
        ELSE IF ~img.parent_err /\ HrefImgUrl(img.parent_href) # None
        THEN HrefImgUrl(img.parent_href)
        ELSE None

\* C15: the source an examined image element is validated with is the first
\* of src, data-src, data-image, data-url, data-lazy-src that holds an
\* absolute HTTP(S) URL; when none does, also when some hold other text, it
\* is the one the fallbacks give: srcset, then data-bem, then the parent href.
C15_ProbeThenFallbacks ==
    Len(snapRuns) >= 1 =>
        \A i \in 1..Len(dom.imgs) :
            (~dom.imgs[i].read.skipped
                /\ C15_Candidate(dom.imgs[i].read.elem) # None)
            => dom.imgs[i].read.src = C15_Candidate(dom.imgs[i].read.elem)

\* C17: an element whose read raises, a data-bem text that does not parse, a
\* parent lookup that fails: each costs only what that read would have
\* given.  The pass ends with the set it ends with over the same page with
\* those elements taken out, so every other element, scope and URL is
\* treated as if the failure were not there.
C17_ElementErrorIsolated ==
    Len(snapRuns) >= 3 => snapRuns[3] = snapRuns[1]

\* C17 witness: an image element whose read raised stands before one that
\* carries a URL, and the pass ended with that URL.
C17_Witness ==
    /\ Len(snapRuns) >= 3
    /\ \E i, j \in 1..Len(dom.imgs) :
            /\ i < j
            /\ dom.imgs[i].read.raised
            /\ dom.imgs[j].read.adds # {}
            /\ dom.imgs[j].read.adds \subseteq snapRuns[1]
    /\ snapRuns[3] = snapRuns[1]

\* C18: with num_images >= 1 the accumulated set never holds more than
\* num_images + 1 URLs, and link-mining never leaves it above num_images.
C18_AtMostOneOver ==
    num_images >= 1 =>
        /\ Cardinality(image_urls) <= num_images + 1
        /\ accumulated <= num_images + 1
        /\ (pc \in {"links", "link_loop"} \/ (pc = "images" /\ selIdx = 1))
                => Cardinality(image_urls) <= num_images

\* C18 witness: a pass ended with one URL more than the quota.
C18_Witness ==
    /\ pc = "post_pass"
    /\ num_images >= 1
    /\ Cardinality(image_urls) = num_images + 1

====
